---- MODULE Spec2Model ----
(***************************************************************************)
(* Model of the tidb-operator garbage-collection watcher                   *)
(* (garbagecollection/watcher.go, cmd main) and of the tidb role           *)
(* reconciler (operator/tidb.go).                                          *)
(*                                                                         *)
(* Four specifications share the module:                                  *)
(*   Spec        the watcher: Run, the watch goroutine, the dispatcher     *)
(*   FairSpec    Spec with the goroutines scheduled fairly                  *)
(*   SpecStable  the pure stability check isDbsCacheUnstable               *)
(*   SpecScale   Db.reconcileTidbs                                         *)
(***************************************************************************)
EXTENDS Integers, Sequences, FiniteSets, TLC

(***************************************************************************)
(* Bounds and universes                                                    *)
(***************************************************************************)
Names == {"c1", "c2"}          \* cluster names
MaxRV == 2                     \* resource versions are 1..MaxRV
MaxEvents == 3                 \* raw items read from the watch streams
MaxInitTries == 1              \* failed initResource attempts
MaxReplicas == 5               \* replica counts / requests in the scale model

RVs == 1 .. MaxRV
EmptyRV == 0                   \* the empty string "" returned for a nil list

\* errCh := make(chan error, 1)
ErrChCap == 1

\* *operator.Db, reduced to what the watcher reads of it
Db == [name : Names, rv : RVs]
Nil == [name |-> "nil", rv |-> 0]

EventTypes == {"ADDED", "MODIFIED", "DELETED"}
\* parse(e) of an event that carries a status: (nil, status)
parseEventOfStatus == Nil
Event == [type : EventTypes, object : Db]
NoEvent == [type |-> "none", object |-> Nil]

(***************************************************************************)
(* Go maps as functions with a varying domain                              *)
(***************************************************************************)
EmptyMap == [k \in {} |-> 0]
MapPut(m, k, v) == [x \in (DOMAIN m) \cup {k} |-> IF x = k THEN v ELSE m[x]]
MapDel(m, k) == [x \in (DOMAIN m) \ {k} |-> m[x]]
\* m[k] of a map of pointers: nil when absent
MapGet(m, k) == IF k \in DOMAIN m THEN m[k] ELSE Nil

\* the lists GetAllDbs can return: items with distinct names, and the
\* collection-level resource version
DbLists ==
    UNION { { [items |-> f, rv |-> v] : f \in [S -> RVs], v \in RVs } : S \in SUBSET Names }

VARIABLES
    \* ---- Watcher ----
    dbs,            \* w.dbs
    dbRVs,          \* w.dbRVs
    pvProvisioner,  \* package-level pvProvisioner: "nil" | "none" | "hostpath"
    cfgPV,          \* w.Config.PVProvisioner
    watchVersion,   \* the watch cursor (Run's local, then watch's parameter)
    pcR,            \* main and Run: "main" | "init" | "recycle" | "serve" | "returned"
    runRet,         \* the error Run returned ("none" while it has not)
    alive,          \* the process has not been ended by main's panic
    pcW,            \* watch goroutine: "idle" | "open" | "recv" | "send" |
                    \*   "sendTest" | "sendErr" | "done"
    wev,            \* ev held by the watch goroutine at eventCh <- ev
    werr,           \* error the watch goroutine is about to send before returning
    breakBy,        \* why the inner loop was left: "none" | "closed" | "gone" | "status"
    watchFrom,      \* resource version of the last WatchTidbs request
    errCh,          \* buffered error channel
    eventChClosed,  \* close(eventCh) has run
    pcD,            \* dispatcher: "idle" | "wait" | "handling" | "done"
    dev,            \* ev held by the dispatcher
    herr,           \* what the last handleTidbEvent returned
    gcArgs,         \* the gc calls made while handling the last event
    nrecv,          \* raw items read from the streams so far
    tries,          \* failed initResource attempts so far
    initRes,        \* how the last initResource attempt ended ("none" before the first)
    initList,       \* dbList.Items of the attempt that succeeded, kept until recycle has run
    inflight,       \* events read from the stream and not yet handled, in stream order
    \* ---- isDbsCacheUnstable as a pure function ----
    chkCache, chkList, chkResult,
    \* ---- reconcileTidbs ----
    Replicas,       \* td.Replicas (= td.Spec.Replicas, the embedded field)
    TidbMax,        \* md.Spec.Tidb.Max
    ScaleState,     \* db.Status.ScaleState, as the set of its bits
    rcReplicas,     \* replicas of the replication controller on the platform
    sReq,           \* last requested replica count
    sPrev,          \* td.Replicas before the last request
    sPrevState,     \* db.Status.ScaleState before the last request
    sRet,           \* what the last reconcileTidbs returned
    sCalls,         \* calls made by the last reconcileTidbs, in order
    sWrites,        \* values the last reconcileTidbs assigned to td.Replicas, in order
    \* ---- Watcher.recycle as a pure function ----
    rDbs,           \* w.dbs: cluster name -> db.Tikv.Stores, as the set of store ids
    rProv,          \* the provisioner selected by initResource
    rVolumes,       \* volumes on disk
    rBefore,        \* volumes on disk before the pass
    rLive,          \* the argument recycle passed to pvProvisioner.Clean
    rDeleted,       \* volumes the pass deleted
    rDone,          \* the pass has run
    \* ---- Tidb.install, upgrade, waitForOk, uninstall ----
    Phase,          \* td.Db.Status.Phase
    Members,        \* td.Members, as the sequence of member names
    tdCur,          \* td.cur, the pod being upgraded ("" for none)
    MigrateState,   \* td.Db.Status.MigrateState
    OuterAddresses, \* td.Db.Status.OuterAddresses
    OuterStatusAddresses, \* td.Db.Status.OuterStatusAddresses
    rcExists,       \* the replication controller tidb-<name> exists on the platform
    svcExists,      \* the service tidb-<name> exists on the platform
    pcT,            \* "idle" | "poll" | "installEnd" | "upgradeLoop" | "upgradeNext" | "panicked"
    caller,         \* who called waitForOk: "none" | "install" | "upgrade"
    attempts,       \* poll iterations of the running waitForOk that did not succeed
    wRet,           \* what the last waitForOk returned ("none" while it runs)
    wObs,           \* what the poll that ended the last waitForOk observed
    tOp,            \* the operation last started: "none" | "install" | "upgrade" | "uninstall"
    tRet,           \* what it returned ("none" while it runs)
    traced,         \* it has emitted its audit event (e.Trace)
    upgraded,       \* upgrade's local of that name
    uPods,          \* upgrade's pods, as returned by GetPods
    uIdx,           \* upgrade's loop index i (1-based)
    tLog,           \* DeletePods and waitForOk calls of the last upgrade, in order
    uPre,           \* whether controller and service existed when uninstall started
    uFault          \* the platform call that failed in the last uninstall ("none")

watchVars == <<dbs, dbRVs, pvProvisioner, cfgPV, watchVersion, pcR, runRet, alive,
               pcW, wev, werr, breakBy, watchFrom, errCh, eventChClosed, pcD, dev,
               herr, gcArgs, nrecv, tries, initRes, initList, inflight>>
stableVars == <<chkCache, chkList, chkResult>>
scaleVars == <<Replicas, TidbMax, ScaleState, rcReplicas, sReq, sPrev, sPrevState,
               sRet, sCalls, sWrites>>
recycleVars == <<rDbs, rProv, rVolumes, rBefore, rLive, rDeleted, rDone>>
tidbVars == <<Phase, Members, tdCur, MigrateState, OuterAddresses, OuterStatusAddresses,
              rcExists, svcExists, pcT, caller, attempts, wRet, wObs, tOp, tRet,
              traced, upgraded, uPods, uIdx, tLog, uPre, uFault>>
nonWatchVars == <<stableVars, scaleVars, recycleVars, tidbVars>>
vars == <<watchVars, nonWatchVars>>

(***************************************************************************)
(* Watcher.handleTidbEvent                                                 *)
(***************************************************************************)
UnsafeState == "unsafe state"

\* handleTidbEvent without the "was never created" guard of Modified and Deleted
handleTidbEvent_NoGuard(ds, rvs, event, gcFails) ==
    LET db == event.object
        n == db.name
        gcRet == IF gcFails THEN "gc error" ELSE "nil"
    IN  CASE event.type = "ADDED" ->
                [dbs |-> MapPut(ds, n, db), dbRVs |-> MapPut(rvs, n, db.rv),
                 err |-> "nil", gc |-> << >>]
          [] event.type = "MODIFIED" ->
                [dbs |-> MapPut(ds, n, db), dbRVs |-> MapPut(rvs, n, db.rv),
                 err |-> gcRet, gc |-> << [old |-> db, new |-> db] >>]
          [] event.type = "DELETED" ->
                [dbs |-> MapDel(ds, n), dbRVs |-> MapDel(rvs, n),
                 err |-> gcRet, gc |-> << [old |-> Nil, new |-> Nil] >>]
          [] OTHER -> [dbs |-> ds, dbRVs |-> rvs, err |-> "nil", gc |-> << >>]

\* handleTidbEvent whose Modified case does not store the resource version
handleTidbEvent_KeepRV(ds, rvs, event, gcFails) ==
    LET db == event.object
        n == db.name
        gcRet == IF gcFails THEN "gc error" ELSE "nil"
    IN  CASE event.type = "ADDED" ->
                [dbs |-> MapPut(ds, n, db), dbRVs |-> MapPut(rvs, n, db.rv),
                 err |-> "nil", gc |-> << >>]
          [] event.type = "MODIFIED" ->
                IF n \notin DOMAIN ds
                THEN [dbs |-> ds, dbRVs |-> rvs, err |-> UnsafeState, gc |-> << >>]
                ELSE LET ds2 == MapPut(ds, n, db)
                     IN  [dbs |-> ds2, dbRVs |-> rvs,
                          err |-> gcRet,
                          gc |-> << [old |-> MapGet(ds2, n), new |-> db] >>]
          [] event.type = "DELETED" ->
                IF n \notin DOMAIN ds
                THEN [dbs |-> ds, dbRVs |-> rvs, err |-> UnsafeState, gc |-> << >>]
                ELSE LET ds2 == MapDel(ds, n)
                     IN  [dbs |-> ds2, dbRVs |-> MapDel(rvs, n),
                          err |-> gcRet,
                          gc |-> << [old |-> MapGet(ds2, n), new |-> Nil] >>]
          [] OTHER -> [dbs |-> ds, dbRVs |-> rvs, err |-> "nil", gc |-> << >>]

\* result of handling `event` on the maps ds, rvs; gcFails: the garbage
\* trigger returns an error.  gc is the sequence of gc calls made.
handleTidbEvent(ds, rvs, event, gcFails) ==
    LET db == event.object
        n == db.name
        gcRet == IF gcFails THEN "gc error" ELSE "nil"
    IN  CASE event.type = "ADDED" ->
                [dbs |-> MapPut(ds, n, db), dbRVs |-> MapPut(rvs, n, db.rv),
                 err |-> "nil", gc |-> << >>]
          [] event.type = "MODIFIED" ->
                IF n \notin DOMAIN ds
                THEN [dbs |-> ds, dbRVs |-> rvs, err |-> UnsafeState, gc |-> << >>]
                ELSE LET ds2 == MapPut(ds, n, db)
                     IN  [dbs |-> ds2, dbRVs |-> MapPut(rvs, n, db.rv),
                          err |-> gcRet,
                          gc |-> << [old |-> MapGet(ds2, n), new |-> db] >>]
          [] event.type = "DELETED" ->
                IF n \notin DOMAIN ds
                THEN [dbs |-> ds, dbRVs |-> rvs, err |-> UnsafeState, gc |-> << >>]
                ELSE LET ds2 == MapDel(ds, n)
                     IN  [dbs |-> ds2, dbRVs |-> MapDel(rvs, n),
                          err |-> gcRet,
                          gc |-> << [old |-> MapGet(ds2, n), new |-> Nil] >>]
          [] OTHER -> [dbs |-> ds, dbRVs |-> rvs, err |-> "nil", gc |-> << >>]

(***************************************************************************)
(* Watcher.isDbsCacheUnstable                                              *)
(***************************************************************************)
\* isDbsCacheUnstable without the comparison of the two lengths
isDbsCacheUnstable_NoLen(rvs, currentDbs) ==
    \E i \in 1 .. Len(currentDbs) :
        IF currentDbs[i].name \notin DOMAIN rvs
        THEN TRUE
        ELSE rvs[currentDbs[i].name] # currentDbs[i].rv

\* currentDbs is the slice of listed clusters: a sequence of Db
isDbsCacheUnstable(rvs, currentDbs) ==
    IF Cardinality(DOMAIN rvs) # Len(currentDbs)
    THEN TRUE
    ELSE \E i \in 1 .. Len(currentDbs) :
            IF currentDbs[i].name \notin DOMAIN rvs
            THEN TRUE
            ELSE rvs[currentDbs[i].name] # currentDbs[i].rv

\* the Items slice of a list, in some order
RECURSIVE ItemsOf(_)
ItemsOf(f) ==
    IF DOMAIN f = {} THEN << >>
    ELSE LET n == CHOOSE x \in DOMAIN f : TRUE
         IN  <<[name |-> n, rv |-> f[n]]>> \o ItemsOf([x \in (DOMAIN f) \ {n} |-> f[x]])


\* the values w.Config.PVProvisioner is given; "other" stands for every
\* value that is not a key of supportedPVProvisioners
PVProvisioners == {"none", "hostpath", "other"}

(***************************************************************************)
(* Initial state: NewWatcher(cfg), nothing started                         *)
(***************************************************************************)
WatchIdle ==
    /\ dbs = EmptyMap
    /\ dbRVs = EmptyMap
    /\ pvProvisioner = "nil"
    /\ watchVersion = EmptyRV
    /\ pcR = "main"
    /\ runRet = "none"
    /\ alive = TRUE
    /\ pcW = "idle"
    /\ wev = NoEvent
    /\ werr = "none"
    /\ breakBy = "none"
    /\ watchFrom = EmptyRV
    /\ errCh = << >>
    /\ eventChClosed = FALSE
    /\ pcD = "idle"
    /\ dev = NoEvent
    /\ herr = "nil"
    /\ gcArgs = << >>
    /\ nrecv = 0
    /\ tries = 0
    /\ initRes = "none"
    /\ initList = EmptyMap
    /\ inflight = << >>

StableIdle ==
    /\ chkCache = EmptyMap
    /\ chkList = << >>
    /\ chkResult = "none"

ScaleIdle ==
    /\ Replicas = 2
    /\ TidbMax = 2
    /\ ScaleState = {}
    /\ rcReplicas = 2
    /\ sReq = 0
    /\ sPrev = 2
    /\ sPrevState = {}
    /\ sRet = "none"
    /\ sCalls = << >>
    /\ sWrites = << >>

RecycleIdle ==
    /\ rDbs = EmptyMap
    /\ rProv = "none"
    /\ rVolumes = {}
    /\ rBefore = {}
    /\ rLive = {}
    /\ rDeleted = {}
    /\ rDone = FALSE

NoObs == [pods |-> FALSE, count |-> 0, status |-> FALSE, listed |-> FALSE, names |-> << >>]

TidbIdle ==
    /\ Phase = "PhaseTikvStarted"
    /\ Members = << >>
    /\ tdCur = ""
    /\ MigrateState = ""
    /\ OuterAddresses = << >>
    /\ OuterStatusAddresses = << >>
    /\ rcExists = FALSE
    /\ svcExists = FALSE
    /\ pcT = "idle"
    /\ caller = "none"
    /\ attempts = 0
    /\ wRet = "none"
    /\ wObs = NoObs
    /\ tOp = "none"
    /\ tRet = "none"
    /\ traced = FALSE
    /\ upgraded = FALSE
    /\ uPods = << >>
    /\ uIdx = 1
    /\ tLog = << >>
    /\ uPre = <<FALSE, FALSE>>
    /\ uFault = "none"

Init ==
    /\ WatchIdle
    /\ cfgPV \in PVProvisioners
    /\ StableIdle
    /\ ScaleIdle
    /\ RecycleIdle
    /\ TidbIdle

(***************************************************************************)
(* Watcher.Run, main goroutine                                             *)
(***************************************************************************)
\* Config.Validate that accepts every provisioner name
Validate_AcceptAll(c) == TRUE

\* Config.Validate: nil exactly for the keys of supportedPVProvisioners
Validate(c) == c \in {"none", "hostpath"}

\* the switch of initResource: no case, and so no assignment, for other values
selectProvisioner(c, pv) ==
    CASE c = "none" -> "none"
      [] c = "hostpath" -> "hostpath"
      [] OTHER -> pv

\* main: c.Validate() returned nil; NewWatcher(c); w.Run() is entered
MainValidated ==
    /\ alive /\ pcR = "main"
    /\ Validate(cfgPV)
    /\ pcR' = "init"
    /\ UNCHANGED nonWatchVars
    /\ UNCHANGED <<dbs, dbRVs, pvProvisioner, cfgPV, watchVersion, runRet, alive, pcW, wev,
                   werr, breakBy, watchFrom, errCh, eventChClosed, pcD, dev, herr,
                   gcArgs, nrecv, tries, initRes, initList, inflight>>

\* main: c.Validate() returned an error: panic before Run is called
MainInvalid ==
    /\ alive /\ pcR = "main"
    /\ ~ Validate(cfgPV)
    /\ alive' = FALSE
    /\ UNCHANGED nonWatchVars
    /\ UNCHANGED <<dbs, dbRVs, pvProvisioner, cfgPV, watchVersion, pcR, runRet, pcW, wev,
                   werr, breakBy, watchFrom, errCh, eventChClosed, pcD, dev, herr,
                   gcArgs, nrecv, tries, initRes, initList, inflight>>

\* findAllDbs' loop over dbList.Items: insert-or-replace, nothing removed
SeedDbs(ds, items) ==
    [x \in (DOMAIN ds) \cup (DOMAIN items) |->
        IF x \in DOMAIN items THEN [name |-> x, rv |-> items[x]] ELSE ds[x]]
SeedRVs(rvs, items) ==
    [x \in (DOMAIN rvs) \cup (DOMAIN items) |->
        IF x \in DOMAIN items THEN items[x] ELSE rvs[x]]

\* one failed attempt of the for loop of Run: CreateTPR or GetAllDbs fails
\* before anything is written
InitFailEarly ==
    /\ alive /\ pcR = "init" /\ tries < MaxInitTries
    /\ tries' = tries + 1
    /\ initRes' \in {"CreateTPR failed", "GetAllDbs failed"}
    /\ UNCHANGED initList
    /\ watchVersion' = EmptyRV
    /\ UNCHANGED nonWatchVars
    /\ UNCHANGED <<dbs, dbRVs, pvProvisioner, cfgPV, pcR, runRet, alive, pcW, wev, werr,
                   breakBy, watchFrom, errCh, eventChClosed, pcD, dev, herr, gcArgs, nrecv, inflight>>

\* one failed attempt: the list was stored, then GetMetadata failed
InitFailLate ==
    /\ alive /\ pcR = "init" /\ tries < MaxInitTries
    /\ cfgPV = "hostpath"
    /\ \E l \in DbLists :
          /\ dbs' = SeedDbs(dbs, l.items)
          /\ dbRVs' = SeedRVs(dbRVs, l.items)
    /\ tries' = tries + 1
    /\ initRes' = "GetMetadata failed"
    /\ UNCHANGED initList
    /\ watchVersion' = EmptyRV
    /\ UNCHANGED nonWatchVars
    /\ UNCHANGED <<pvProvisioner, cfgPV, pcR, runRet, alive, pcW, wev, werr,
                   breakBy, watchFrom, errCh, eventChClosed, pcD, dev, herr, gcArgs, nrecv, inflight>>

\* the successful attempt; nilList: GetAllDbs returned (nil, nil)
InitOk ==
    /\ alive /\ pcR = "init"
    /\ \/ /\ UNCHANGED <<dbs, dbRVs>>
          /\ watchVersion' = EmptyRV
          /\ initList' = EmptyMap
       \/ \E l \in DbLists :
            /\ dbs' = SeedDbs(dbs, l.items)
            /\ dbRVs' = SeedRVs(dbRVs, l.items)
            /\ watchVersion' = l.rv
            /\ initList' = l.items
    /\ pvProvisioner' = selectProvisioner(cfgPV, pvProvisioner)
    /\ pcR' = "recycle"
    /\ tries' = 0
    /\ initRes' = "ok"
    /\ UNCHANGED nonWatchVars
    /\ UNCHANGED <<cfgPV, runRet, alive, pcW, wev, werr,
                   breakBy, watchFrom, errCh, eventChClosed, pcD, dev, herr, gcArgs, nrecv, inflight>>

\* w.recycle() fails: Run returns the error
RecycleFail ==
    /\ alive /\ pcR = "recycle"
    /\ pvProvisioner = "hostpath"
    /\ pcR' = "returned"
    /\ runRet' = "recycle error"
    /\ initList' = EmptyMap
    /\ UNCHANGED nonWatchVars
    /\ UNCHANGED <<dbs, dbRVs, pvProvisioner, cfgPV, watchVersion, alive, pcW, wev, werr,
                   breakBy, watchFrom, errCh, eventChClosed, pcD, dev, herr, gcArgs, nrecv, tries, initRes, inflight>>

\* w.recycle() succeeds; the ticker, the watch goroutine and the dispatcher
\* are started and Run blocks on <-errCh.  pvProvisioner.Clean needs a
\* provisioner: on the nil interface the call cannot return.
RecycleOk ==
    /\ alive /\ pcR = "recycle"
    /\ pvProvisioner # "nil"
    /\ pcR' = "serve"
    /\ pcW' = "open"
    /\ pcD' = "wait"
    /\ initList' = EmptyMap
    /\ UNCHANGED nonWatchVars
    /\ UNCHANGED <<dbs, dbRVs, pvProvisioner, cfgPV, watchVersion, runRet, alive, wev, werr,
                   breakBy, watchFrom, errCh, eventChClosed, dev, herr, gcArgs, nrecv, tries, initRes, inflight>>

\* return <-errCh
RunReturn ==
    /\ alive /\ pcR = "serve"
    /\ errCh # << >>
    /\ runRet' = Head(errCh)
    /\ errCh' = Tail(errCh)
    /\ pcR' = "returned"
    /\ UNCHANGED nonWatchVars
    /\ UNCHANGED <<dbs, dbRVs, pvProvisioner, cfgPV, watchVersion, alive, pcW, wev, werr,
                   breakBy, watchFrom, eventChClosed, pcD, dev, herr, gcArgs, nrecv, tries, initRes, initList, inflight>>

\* main: if err = w.Run(); err != nil { panic(...) }
MainPanic ==
    /\ alive /\ pcR = "returned"
    /\ runRet # "nil"
    /\ alive' = FALSE
    /\ UNCHANGED nonWatchVars
    /\ UNCHANGED <<dbs, dbRVs, pvProvisioner, cfgPV, watchVersion, pcR, runRet, pcW, wev,
                   werr, breakBy, watchFrom, errCh, eventChClosed, pcD, dev, herr,
                   gcArgs, nrecv, tries, initRes, initList, inflight>>

(***************************************************************************)
(* Watcher.watch: the watch goroutine                                      *)
(***************************************************************************)
\* resp, err := k8sutil.WatchTidbs(..., watchVersion), err == nil
WatchOpen ==
    /\ alive /\ pcW = "open"
    /\ watchFrom' = watchVersion
    /\ pcW' = "recv"
    /\ breakBy' = "none"
    /\ UNCHANGED nonWatchVars
    /\ UNCHANGED <<dbs, dbRVs, pvProvisioner, cfgPV, watchVersion, pcR, runRet, alive,
                   wev, werr, errCh, eventChClosed, pcD, dev, herr, gcArgs, nrecv,
                   tries, initRes, initList, inflight>>

\* WatchTidbs fails: errCh <- err; return
WatchOpenFail ==
    /\ alive /\ pcW = "open"
    /\ watchFrom' = watchVersion
    /\ pcW' = "sendErr"
    /\ werr' = "watch error"
    /\ breakBy' = "none"
    /\ UNCHANGED nonWatchVars
    /\ UNCHANGED <<dbs, dbRVs, pvProvisioner, cfgPV, watchVersion, pcR, runRet, alive,
                   wev, errCh, eventChClosed, pcD, dev, herr, gcArgs, nrecv,
                   tries, initRes, initList, inflight>>

\* e, ok := <-resp.ResultChan() with !ok: break, on to line 306
WatchRecvClosed ==
    /\ alive /\ pcW = "recv" /\ nrecv < MaxEvents
    /\ nrecv' = nrecv + 1
    /\ pcW' = "sendTest"
    /\ breakBy' = "closed"
    /\ UNCHANGED nonWatchVars
    /\ UNCHANGED <<dbs, dbRVs, pvProvisioner, cfgPV, watchVersion, pcR, runRet, alive,
                   wev, werr, watchFrom, errCh, eventChClosed, pcD, dev, herr, gcArgs, tries, initRes, initList, inflight>>

\* a normal event: the cursor advances, then eventCh <- ev
WatchRecvEvent(e) ==
    /\ alive /\ pcW = "recv" /\ nrecv < MaxEvents
    /\ nrecv' = nrecv + 1
    /\ watchVersion' = e.object.rv
    /\ wev' = e
    /\ pcW' = "send"
    /\ inflight' = Append(inflight, e)
    /\ UNCHANGED nonWatchVars
    /\ UNCHANGED <<dbs, dbRVs, pvProvisioner, cfgPV, pcR, runRet, alive,
                   werr, breakBy, watchFrom, errCh, eventChClosed, pcD, dev, herr,
                   gcArgs, tries, initRes, initList>>

\* a 410 status whose relist succeeds and is stable against w.dbRVs
WatchGoneStable ==
    /\ alive /\ pcW = "recv" /\ nrecv < MaxEvents
    /\ \E l \in DbLists :
          /\ ~ isDbsCacheUnstable(dbRVs, ItemsOf(l.items))
          /\ watchVersion' = l.rv
    /\ nrecv' = nrecv + 1
    /\ pcW' = "sendTest"
    /\ breakBy' = "gone"
    /\ UNCHANGED nonWatchVars
    /\ UNCHANGED <<dbs, dbRVs, pvProvisioner, cfgPV, pcR, runRet, alive,
                   wev, werr, watchFrom, errCh, eventChClosed, pcD, dev, herr, gcArgs, tries, initRes, initList, inflight>>

\* a 410 status whose relist fails or is unstable: errCh <- ErrVersionOutdated; return
WatchGoneOutdated ==
    /\ alive /\ pcW = "recv" /\ nrecv < MaxEvents
    /\ \/ TRUE      \* GetAllDbs returned an error
       \/ \E l \in DbLists : isDbsCacheUnstable(dbRVs, ItemsOf(l.items))
    /\ nrecv' = nrecv + 1
    /\ pcW' = "sendErr"
    /\ werr' = "VersionOutdated"
    /\ breakBy' = "gone"
    /\ UNCHANGED nonWatchVars
    /\ UNCHANGED <<dbs, dbRVs, pvProvisioner, cfgPV, watchVersion, pcR, runRet, alive,
                   wev, watchFrom, errCh, eventChClosed, pcD, dev, herr, gcArgs, tries, initRes, initList, inflight>>

\* an error status other than 410: resp.Stop(), logs.Critical, and then line
\* 303 reads ev.Object of the nil ev that parse returns beside a status: the
\* goroutine panics and the process ends
WatchOtherStatus ==
    /\ alive /\ pcW = "recv" /\ nrecv < MaxEvents
    /\ nrecv' = nrecv + 1
    /\ breakBy' = "status"
    /\ parseEventOfStatus = Nil
    /\ alive' = FALSE
    /\ UNCHANGED nonWatchVars
    /\ UNCHANGED <<dbs, dbRVs, pvProvisioner, cfgPV, watchVersion, pcR, runRet,
                   pcW, wev, werr, watchFrom, errCh, eventChClosed, pcD, dev, herr, gcArgs,
                   tries, initRes, initList, inflight>>

\* the ticker goroutine: w.cleanClusters() ranges over w.dbs and asks each
\* cluster to delete its buried stores; it writes nothing of the watcher
GcTick ==
    /\ alive /\ pcR \in {"serve", "returned"}
    /\ \A key \in DOMAIN dbs : dbs[key].name = key
    /\ UNCHANGED vars

\* eventCh <- ev that does not wait for the dispatcher to be back at its range
WatchSendEvent_NoWait ==
    /\ alive /\ pcW = "send" /\ pcD \in {"wait", "handling"}
    /\ dev' = wev
    /\ pcD' = "handling"
    /\ pcW' = "recv"
    /\ UNCHANGED nonWatchVars
    /\ UNCHANGED <<dbs, dbRVs, pvProvisioner, cfgPV, watchVersion, pcR, runRet, alive,
                   wev, werr, breakBy, watchFrom, errCh, eventChClosed, herr, gcArgs,
                   nrecv, tries, initRes, initList, inflight>>

\* eventCh <- ev on the unbuffered channel: a rendezvous with the dispatcher's range
WatchSendEvent ==
    /\ alive /\ pcW = "send" /\ pcD = "wait"
    /\ dev' = wev
    /\ pcD' = "handling"
    /\ pcW' = "recv"
    /\ UNCHANGED nonWatchVars
    /\ UNCHANGED <<dbs, dbRVs, pvProvisioner, cfgPV, watchVersion, pcR, runRet, alive,
                   wev, werr, breakBy, watchFrom, errCh, eventChClosed, herr, gcArgs, nrecv, tries, initRes, initList, inflight>>

\* line 306: errCh <- errors.New("test"), then the outer loop watches again
WatchSendTest ==
    /\ alive /\ pcW = "sendTest"
    /\ Len(errCh) < ErrChCap
    /\ errCh' = Append(errCh, "test")
    /\ pcW' = "open"
    /\ UNCHANGED nonWatchVars
    /\ UNCHANGED <<dbs, dbRVs, pvProvisioner, cfgPV, watchVersion, pcR, runRet, alive,
                   wev, werr, breakBy, watchFrom, eventChClosed, pcD, dev, herr, gcArgs, nrecv, tries, initRes, initList, inflight>>

\* errCh <- err; return; the deferred close(eventCh)
WatchSendErr ==
    /\ alive /\ pcW = "sendErr"
    /\ Len(errCh) < ErrChCap
    /\ errCh' = Append(errCh, werr)
    /\ pcW' = "done"
    /\ eventChClosed' = TRUE
    /\ UNCHANGED nonWatchVars
    /\ UNCHANGED <<dbs, dbRVs, pvProvisioner, cfgPV, watchVersion, pcR, runRet, alive,
                   wev, werr, breakBy, watchFrom, pcD, dev, herr, gcArgs, nrecv, tries, initRes, initList, inflight>>

(***************************************************************************)
(* The dispatcher goroutine of Run                                         *)
(***************************************************************************)
\* a dispatcher that leaves its loop when handleTidbEvent returns an error
DispatchHandle_ExitOnError ==
    /\ alive /\ pcD = "handling"
    /\ \E gcFails \in BOOLEAN :
          LET r == handleTidbEvent(dbs, dbRVs, dev, gcFails) IN
          /\ dbs' = r.dbs
          /\ dbRVs' = r.dbRVs
          /\ herr' = r.err
          /\ gcArgs' = r.gc
          /\ pcD' = IF r.err = "nil" THEN "wait" ELSE "done"
    /\ dev' = NoEvent
    /\ inflight' = Tail(inflight)
    /\ UNCHANGED nonWatchVars
    /\ UNCHANGED <<pvProvisioner, cfgPV, watchVersion, pcR, runRet, alive, pcW, wev, werr,
                   breakBy, watchFrom, errCh, eventChClosed, nrecv, tries, initRes, initList>>

\* if err := w.handleTidbEvent(ev); err != nil { logs.Warn(...) }
DispatchHandle ==
    /\ alive /\ pcD = "handling"
    /\ \E gcFails \in BOOLEAN :
          LET r == handleTidbEvent(dbs, dbRVs, dev, gcFails) IN
          /\ dbs' = r.dbs
          /\ dbRVs' = r.dbRVs
          /\ herr' = r.err
          /\ gcArgs' = r.gc
    /\ pcD' = "wait"
    /\ dev' = NoEvent
    /\ inflight' = Tail(inflight)
    /\ UNCHANGED nonWatchVars
    /\ UNCHANGED <<pvProvisioner, cfgPV, watchVersion, pcR, runRet, alive, pcW, wev, werr,
                   breakBy, watchFrom, errCh, eventChClosed, nrecv, tries, initRes, initList>>

\* for ev := range eventCh ends when the channel is closed
DispatchExit ==
    /\ alive /\ pcD = "wait" /\ eventChClosed
    /\ pcD' = "done"
    /\ UNCHANGED nonWatchVars
    /\ UNCHANGED <<dbs, dbRVs, pvProvisioner, cfgPV, watchVersion, pcR, runRet, alive,
                   pcW, wev, werr, breakBy, watchFrom, errCh, eventChClosed, dev, herr,
                   gcArgs, nrecv, tries, initRes, initList, inflight>>

Next ==
    \/ MainValidated
    \/ MainInvalid
    \/ InitFailEarly
    \/ InitFailLate
    \/ InitOk
    \/ RecycleFail
    \/ RecycleOk
    \/ RunReturn
    \/ MainPanic
    \/ WatchOpen
    \/ WatchOpenFail
    \/ WatchRecvClosed
    \/ \E e \in Event : WatchRecvEvent(e)
    \/ WatchGoneStable
    \/ WatchGoneOutdated
    \/ WatchOtherStatus
    \/ GcTick
    \/ WatchSendEvent
    \/ WatchSendTest
    \/ WatchSendErr
    \/ DispatchHandle
    \/ DispatchExit

Spec == Init /\ [][Next]_vars

\* Every goroutine that can take a step eventually takes it; what the platform
\* puts on the stream, and whether initialization ever succeeds, is left open.
FairSpec ==
    /\ Spec
    /\ WF_vars(RecycleOk \/ RecycleFail)
    /\ WF_vars(RunReturn)
    /\ WF_vars(MainPanic)
    /\ WF_vars(WatchOpen \/ WatchOpenFail)
    /\ WF_vars(WatchSendEvent)
    /\ WF_vars(WatchSendTest)
    /\ WF_vars(WatchSendErr)
    /\ WF_vars(DispatchHandle)
    /\ WF_vars(DispatchExit)


(***************************************************************************)
(* SpecStable: isDbsCacheUnstable applied to every cache and every list    *)
(***************************************************************************)
\* every w.dbRVs
Caches == UNION { [S -> RVs] : S \in SUBSET Names }

\* every Items slice of a list: clusters with pairwise distinct names, in any order
ItemSlices ==
    { l \in UNION { [1 .. n -> Db] : n \in 0 .. Cardinality(Names) } :
        \A i, j \in 1 .. Len(l) : i # j => l[i].name # l[j].name }

InitStable ==
    /\ WatchIdle
    /\ cfgPV = "none"
    /\ ScaleIdle
    /\ RecycleIdle
    /\ TidbIdle
    /\ chkCache \in Caches
    /\ chkList \in ItemSlices
    /\ chkResult = "none"

CheckStable ==
    /\ chkResult = "none"
    /\ chkResult' = IF isDbsCacheUnstable(chkCache, chkList) THEN "unstable" ELSE "stable"
    /\ UNCHANGED <<chkCache, chkList>>
    /\ UNCHANGED <<watchVars, scaleVars, recycleVars, tidbVars>>

NextStable == CheckStable

SpecStable == InitStable /\ [][NextStable]_vars

(***************************************************************************)
(* SpecScale: Db.reconcileTidbs                                            *)
(***************************************************************************)
ScaleBits == {"tidbScaleErr", "otherScaleErr"}

\* one call made by reconcileTidbs and whether it returned nil
Call(op, ok) == [op |-> op, ok |-> ok]

\* the "check replicas" block with the scale-out test moved before the maximum test
checkReplicas_Reordered(replica, cur, max) ==
    IF replica > cur * 3 THEN "scale out more than 2 times"
    ELSE IF replica > max THEN "exceeds max"
    ELSE IF replica < 2 THEN "must be greater than 2"
    ELSE IF (cur - replica) * 3 > cur THEN "scale down less than one-third"
    ELSE "nil"

\* the "check replicas" block: the error returned, "nil" when the request passes
checkReplicas(replica, cur, max) ==
    IF replica > max THEN "exceeds max"
    ELSE IF replica < 2 THEN "must be greater than 2"
    ELSE IF replica > cur * 3 THEN "scale out more than 2 times"
    ELSE IF (cur - replica) * 3 > cur THEN "scale down less than one-third"
    ELSE "nil"

\* a deferred function that also clears the bit when err is nil
deferScale_ClearOnSuccess(state, err) ==
    IF err # "nil" THEN state \cup {"tidbScaleErr"} ELSE state \ {"tidbScaleErr"}

\* the deferred function: if err != nil { db.Status.ScaleState |= tidbScaleErr }
deferScale(state, err) == IF err # "nil" THEN state \cup {"tidbScaleErr"} ELSE state

\* reconcileTidbs that assigns td.Replicas before the "check replicas" block
reconcileTidbs_AssignFirst(replica, cur, max, state, rc, checkFails, scaleFails, waitFails) ==
    IF replica < 1 \/ replica = cur
    THEN [Replicas |-> cur, ScaleState |-> state, rc |-> rc,
          ret |-> IF checkFails THEN "checkStatus error" ELSE "nil",
          calls |-> <<Call("checkStatus", ~ checkFails)>>, writes |-> << >>]
    ELSE LET v == checkReplicas(replica, cur, max) IN
         IF v # "nil"
         THEN [Replicas |-> replica, ScaleState |-> deferScale(state, v), rc |-> rc,
               ret |-> v, calls |-> << >>, writes |-> <<replica>>]
         ELSE IF scaleFails
         THEN [Replicas |-> replica, ScaleState |-> deferScale(state, "scale error"),
               rc |-> rc, ret |-> "scale error",
               calls |-> <<Call("ScaleReplicationController", FALSE)>>,
               writes |-> <<replica>>]
         ELSE LET err == IF waitFails THEN "waitForOk error" ELSE "nil" IN
              [Replicas |-> replica, ScaleState |-> deferScale(state, err),
               rc |-> replica, ret |-> err,
               calls |-> <<Call("ScaleReplicationController", TRUE),
                           Call("waitForOk", ~ waitFails)>>,
               writes |-> <<replica>>]

\* reconcileTidbs that puts td.Replicas back when the scale call or the health gate fails
reconcileTidbs_Revert(replica, cur, max, state, rc, checkFails, scaleFails, waitFails) ==
    IF replica < 1 \/ replica = cur
    THEN [Replicas |-> cur, ScaleState |-> state, rc |-> rc,
          ret |-> IF checkFails THEN "checkStatus error" ELSE "nil",
          calls |-> <<Call("checkStatus", ~ checkFails)>>, writes |-> << >>]
    ELSE LET v == checkReplicas(replica, cur, max) IN
         IF v # "nil"
         THEN [Replicas |-> cur, ScaleState |-> deferScale(state, v), rc |-> rc,
               ret |-> v, calls |-> << >>, writes |-> << >>]
         ELSE IF scaleFails
         THEN [Replicas |-> cur, ScaleState |-> deferScale(state, "scale error"),
               rc |-> rc, ret |-> "scale error",
               calls |-> <<Call("ScaleReplicationController", FALSE)>>,
               writes |-> <<replica, cur>>]
         ELSE LET err == IF waitFails THEN "waitForOk error" ELSE "nil" IN
              [Replicas |-> IF waitFails THEN cur ELSE replica,
               ScaleState |-> deferScale(state, err),
               rc |-> replica, ret |-> err,
               calls |-> <<Call("ScaleReplicationController", TRUE),
                           Call("waitForOk", ~ waitFails)>>,
               writes |-> IF waitFails THEN <<replica, cur>> ELSE <<replica>>]

\* reconcileTidbs(replica) from td.Replicas = cur, md.Spec.Tidb.Max = max,
\* db.Status.ScaleState = state, the controller at rc replicas; the three flags
\* are the outcomes of checkStatus, ScaleReplicationController and waitForOk
reconcileTidbs(replica, cur, max, state, rc, checkFails, scaleFails, waitFails) ==
    IF replica < 1 \/ replica = cur
    THEN [Replicas |-> cur, ScaleState |-> state, rc |-> rc,
          ret |-> IF checkFails THEN "checkStatus error" ELSE "nil",
          calls |-> <<Call("checkStatus", ~ checkFails)>>, writes |-> << >>]
    ELSE LET v == checkReplicas(replica, cur, max) IN
         IF v # "nil"
         THEN [Replicas |-> cur, ScaleState |-> deferScale(state, v), rc |-> rc,
               ret |-> v, calls |-> << >>, writes |-> << >>]
         ELSE IF scaleFails
         THEN [Replicas |-> replica, ScaleState |-> deferScale(state, "scale error"),
               rc |-> rc, ret |-> "scale error",
               calls |-> <<Call("ScaleReplicationController", FALSE)>>,
               writes |-> <<replica>>]
         ELSE LET err == IF waitFails THEN "waitForOk error" ELSE "nil" IN
              [Replicas |-> replica, ScaleState |-> deferScale(state, err),
               rc |-> replica, ret |-> err,
               calls |-> <<Call("ScaleReplicationController", TRUE),
                           Call("waitForOk", ~ waitFails)>>,
               writes |-> <<replica>>]

InitScale ==
    /\ WatchIdle
    /\ cfgPV = "none"
    /\ StableIdle
    /\ RecycleIdle
    /\ TidbIdle
    /\ Replicas \in 1 .. MaxReplicas
    /\ TidbMax \in 1 .. MaxReplicas
    /\ ScaleState \in SUBSET ScaleBits
    /\ rcReplicas = Replicas
    /\ sReq = 0
    /\ sPrev = Replicas
    /\ sPrevState = ScaleState
    /\ sRet = "none"
    /\ sCalls = << >>
    /\ sWrites = << >>

Reconcile(replica) ==
    \E checkFails, scaleFails, waitFails \in BOOLEAN :
        LET r == reconcileTidbs(replica, Replicas, TidbMax, ScaleState, rcReplicas,
                                checkFails, scaleFails, waitFails) IN
        /\ Replicas' = r.Replicas
        /\ ScaleState' = r.ScaleState
        /\ rcReplicas' = r.rc
        /\ sReq' = replica
        /\ sPrev' = Replicas
        /\ sPrevState' = ScaleState
        /\ sRet' = r.ret
        /\ sCalls' = r.calls
        /\ sWrites' = r.writes
        /\ UNCHANGED TidbMax
        /\ UNCHANGED <<watchVars, stableVars, recycleVars, tidbVars>>

NextScale == \E replica \in -1 .. MaxReplicas + 1 : Reconcile(replica)

SpecScale == InitScale /\ [][NextScale]_vars

(***************************************************************************)
(* SpecRecycle: Watcher.recycle and the provisioner's Clean                *)
(***************************************************************************)
MaxStores == 3                 \* store ids

StoreIds == 1 .. MaxStores

\* the cluster maps recycle may find: every store belongs to at most one cluster
StoreMaps ==
    { m \in UNION { [D -> SUBSET StoreIds] : D \in SUBSET Names } :
        \A a, b \in DOMAIN m : a # b => m[a] \cap m[b] = {} }

\* recycle that collects the stores of one cluster only
recycle_OneCluster(ds) ==
    IF DOMAIN ds = {} THEN {} ELSE ds[CHOOSE n \in DOMAIN ds : TRUE]

\* recycle: all = every s of db.Tikv.Stores of every db of w.dbs
recycle(ds) == UNION { ds[n] : n \in DOMAIN ds }

\* pvProvisioner.Clean(all): the volumes it deletes.  NilPVProvisioner
\* deletes nothing; HostPathPVProvisioner deletes the volumes under its
\* directory that match no store of all.
Clean(prov, all, volumes) ==
    IF prov = "hostpath" THEN { v \in volumes : v \notin all } ELSE {}

InitRecycle ==
    /\ WatchIdle
    /\ cfgPV = "none"
    /\ StableIdle
    /\ ScaleIdle
    /\ TidbIdle
    /\ rDbs \in StoreMaps
    /\ rProv \in { selectProvisioner(c, "nil") : c \in { k \in PVProvisioners : Validate(k) } }
    /\ rVolumes \in SUBSET StoreIds
    /\ rBefore = rVolumes
    /\ rLive = {}
    /\ rDeleted = {}
    /\ rDone = FALSE

Recycle ==
    /\ ~ rDone
    /\ rDone' = TRUE
    /\ rLive' = recycle(rDbs)
    /\ rDeleted' = Clean(rProv, rLive', rVolumes)
    /\ rVolumes' = rVolumes \ rDeleted'
    /\ UNCHANGED <<rDbs, rProv, rBefore>>
    /\ UNCHANGED <<watchVars, stableVars, scaleVars, tidbVars>>

NextRecycle == Recycle

SpecRecycle == InitRecycle /\ [][NextRecycle]_vars

(***************************************************************************)
(* SpecTidb: Tidb.install, upgrade, waitForOk, uninstall                   *)
(***************************************************************************)
MaxPods == 2                   \* pods of the role on the platform
MaxAttempts == 2               \* int(waitTidbComponentAvailableTimeout / interval)
MaxAddrs == 2                  \* createService calls between two uninstalls

\* the name of the i-th pod in the platform's listing order
PodName(i) == "p" \o ToString(i)

PodNames == { PodName(i) : i \in 1 .. MaxPods }

\* a pod as upgrade reads it: its name and whether its image is not the target's
Pods == [name : PodNames, old : BOOLEAN]

\* results of k8sutil.GetPods: the first n pods, each at the target version or not
PodLists ==
    UNION { { [i \in 1 .. n |-> [name |-> PodName(i), old |-> f[i]]] :
                f \in [1 .. n -> BOOLEAN] } : n \in 0 .. MaxPods }

\* results of k8sutil.ListPodNames: some of the pods, in listing order
NameLists ==
    { [i \in DOMAIN l |-> PodName(l[i])] :
        l \in { k \in UNION { [1 .. n -> 1 .. MaxPods] : n \in 0 .. MaxPods } :
                  \A i, j \in 1 .. Len(k) : i < j => k[i] < k[j] } }

\* the order of the Phase constants
PhaseRank(ph) ==
    CASE ph = "PhaseTikvStarted" -> 6
      [] ph = "PhaseTidbPending" -> 7
      [] ph = "PhaseTidbStartFailed" -> 8
      [] ph = "PhaseTidbStarted" -> 9

\* needUpgrade(&pod, td.Version)
needUpgrade(pod) == pod.old

\* k8sutil.DelRc, k8sutil.DelSrvs: deleting what is absent is not an error
DelRes(exists, fails, what) ==
    IF fails THEN [exists |-> exists, err |-> what \o " failed"]
    ELSE [exists |-> FALSE, err |-> "nil"]

\* retryutil.Retry after one call of f that returned (done, err), n calls
\* having failed before: any failure of f leads to another call until max
\* calls have been made
Retry(n, max, done, err) ==
    IF done THEN [again |-> FALSE, n |-> n, ret |-> "nil"]
    ELSE IF n + 1 >= max THEN [again |-> FALSE, n |-> n + 1, ret |-> "retry timeout"]
    ELSE [again |-> TRUE, n |-> n + 1, ret |-> "none"]

\* the poll function of waitForOk with a syncMembers that leaves td.Members alone
iteration_NoSync(podsOk, count, statusOk, listOk, names, replicas, members) ==
    IF ~ podsOk THEN
        [done |-> FALSE, err |-> "GetPods failed", Members |-> members, obs |-> NoObs]
    ELSE IF count # replicas THEN
        [done |-> FALSE, err |-> "nil", Members |-> members,
         obs |-> [NoObs EXCEPT !.pods = TRUE, !.count = count]]
    ELSE IF ~ statusOk THEN
        [done |-> FALSE, err |-> "nil", Members |-> members,
         obs |-> [NoObs EXCEPT !.pods = TRUE, !.count = count]]
    ELSE IF ~ listOk THEN
        [done |-> FALSE, err |-> "ListPodNames failed", Members |-> members,
         obs |-> [NoObs EXCEPT !.pods = TRUE, !.count = count, !.status = TRUE]]
    ELSE
        [done |-> TRUE, err |-> "nil", Members |-> members,
         obs |-> [pods |-> TRUE, count |-> count, status |-> TRUE,
                  listed |-> TRUE, names |-> names]]

\* the poll function waitForOk hands to Retry, and syncMembers: what it returns,
\* td.Members after it, and what it observed on the platform
iteration(podsOk, count, statusOk, listOk, names, replicas, members) ==
    IF ~ podsOk THEN
        [done |-> FALSE, err |-> "GetPods failed", Members |-> members, obs |-> NoObs]
    ELSE IF count # replicas THEN
        [done |-> FALSE, err |-> "nil", Members |-> members,
         obs |-> [NoObs EXCEPT !.pods = TRUE, !.count = count]]
    ELSE IF ~ statusOk THEN
        [done |-> FALSE, err |-> "nil", Members |-> members,
         obs |-> [NoObs EXCEPT !.pods = TRUE, !.count = count]]
    ELSE IF ~ listOk THEN
        [done |-> FALSE, err |-> "ListPodNames failed", Members |-> members,
         obs |-> [NoObs EXCEPT !.pods = TRUE, !.count = count, !.status = TRUE]]
    ELSE
        [done |-> TRUE, err |-> "nil", Members |-> names,
         obs |-> [pods |-> TRUE, count |-> count, status |-> TRUE,
                  listed |-> TRUE, names |-> names]]

\* the fields uninstall works on
TidbState ==
    [Members |-> Members, cur |-> tdCur, MigrateState |-> MigrateState,
     ScaleState |-> ScaleState, OuterAddresses |-> OuterAddresses,
     OuterStatusAddresses |-> OuterStatusAddresses, rc |-> rcExists, svc |-> svcExists]

\* uninstall that leaves the scale state as it is
uninstall_KeepScaleState(st, rcFails, svcFails) ==
    LET rc == DelRes(st.rc, rcFails, "DelRc")
        svc == DelRes(st.svc, svcFails, "DelSrvs")
    IN  IF rc.err # "nil" THEN [st |-> st, err |-> rc.err]
        ELSE IF svc.err # "nil" THEN [st |-> [st EXCEPT !.rc = rc.exists], err |-> svc.err]
        ELSE [st |-> [Members |-> << >>, cur |-> "", MigrateState |-> "",
                      ScaleState |-> st.ScaleState, OuterAddresses |-> << >>,
                      OuterStatusAddresses |-> << >>,
                      rc |-> rc.exists, svc |-> svc.exists],
              err |-> "nil"]

\* Tidb.uninstall
uninstall(st, rcFails, svcFails) ==
    LET rc == DelRes(st.rc, rcFails, "DelRc")
        svc == DelRes(st.svc, svcFails, "DelSrvs")
    IN  IF rc.err # "nil" THEN [st |-> st, err |-> rc.err]
        ELSE IF svc.err # "nil" THEN [st |-> [st EXCEPT !.rc = rc.exists], err |-> svc.err]
        ELSE [st |-> [Members |-> << >>, cur |-> "", MigrateState |-> "",
                      ScaleState |-> {}, OuterAddresses |-> << >>,
                      OuterStatusAddresses |-> << >>,
                      rc |-> rc.exists, svc |-> svc.exists],
              err |-> "nil"]

scaleRest == <<Replicas, TidbMax, rcReplicas, sReq, sPrev, sPrevState, sRet, sCalls, sWrites>>

InitTidb ==
    /\ WatchIdle
    /\ cfgPV = "none"
    /\ StableIdle
    /\ RecycleIdle
    /\ Replicas \in 1 .. MaxPods
    /\ TidbMax = MaxPods
    /\ ScaleState \in {{}, {"tidbScaleErr"}}
    /\ rcReplicas = Replicas
    /\ sReq = 0
    /\ sPrev = Replicas
    /\ sPrevState = ScaleState
    /\ sRet = "none"
    /\ sCalls = << >>
    /\ sWrites = << >>
    /\ Phase = "PhaseTikvStarted"
    /\ Members = << >>
    /\ tdCur = ""
    /\ MigrateState = IF ScaleState = {} THEN "" ELSE "migrating"
    /\ OuterAddresses = << >>
    /\ OuterStatusAddresses = << >>
    /\ rcExists = FALSE
    /\ svcExists = FALSE
    /\ pcT = "idle"
    /\ caller = "none"
    /\ attempts = 0
    /\ wRet = "none"
    /\ wObs = NoObs
    /\ tOp = "none"
    /\ tRet = "none"
    /\ traced = FALSE
    /\ upgraded = FALSE
    /\ uPods = << >>
    /\ uIdx = 1
    /\ tLog = << >>
    /\ uPre = <<FALSE, FALSE>>
    /\ uFault = "none"

\* an operation starts: what the previous one left in the locals is gone
StartOp(op) ==
    /\ pcT = "idle"
    /\ tOp' = op
    /\ attempts' = 0
    /\ wRet' = "none"
    /\ wObs' = NoObs
    /\ tLog' = << >>
    /\ uIdx' = 1

\* install up to its call of waitForOk
Install(updateOk, svcOk, rcOk) ==
    /\ StartOp("install")
    /\ Len(OuterStatusAddresses) < MaxAddrs
    /\ IF ~ updateOk THEN
          /\ Phase' = "PhaseTidbPending"
          /\ tRet' = "update failed"
          /\ traced' = FALSE
          /\ pcT' = "idle"
          /\ caller' = "none"
          /\ UNCHANGED <<OuterAddresses, OuterStatusAddresses, svcExists, rcExists>>
       ELSE IF ~ svcOk THEN
          /\ Phase' = "PhaseTidbStartFailed"
          /\ tRet' = "createService failed"
          /\ traced' = TRUE
          /\ pcT' = "idle"
          /\ caller' = "none"
          /\ UNCHANGED <<OuterAddresses, OuterStatusAddresses, svcExists, rcExists>>
       ELSE
          /\ OuterAddresses' = Append(OuterAddresses, "proxy:port0")
          /\ OuterStatusAddresses' = Append(OuterStatusAddresses, "proxy:port1")
          /\ svcExists' = TRUE
          /\ IF ~ rcOk THEN
                /\ Phase' = "PhaseTidbStartFailed"
                /\ tRet' = "createReplicationController failed"
                /\ traced' = TRUE
                /\ pcT' = "idle"
                /\ caller' = "none"
                /\ UNCHANGED rcExists
             ELSE
                /\ Phase' = "PhaseTidbPending"
                /\ tRet' = "none"
                /\ traced' = FALSE
                /\ pcT' = "poll"
                /\ caller' = "install"
                /\ rcExists' = TRUE
    /\ upgraded' = FALSE
    /\ uPods' = << >>
    /\ uPre' = <<FALSE, FALSE>>
    /\ uFault' = "none"
    /\ UNCHANGED <<Members, tdCur, MigrateState>>
    /\ UNCHANGED <<watchVars, stableVars, scaleVars, recycleVars>>

\* install after waitForOk returned: the deferred function
InstallEnd ==
    /\ pcT = "installEnd"
    /\ Phase' = IF wRet = "nil" THEN "PhaseTidbStarted" ELSE "PhaseTidbStartFailed"
    /\ traced' = TRUE
    /\ tRet' = wRet
    /\ pcT' = "idle"
    /\ caller' = "none"
    /\ UNCHANGED <<Members, tdCur, MigrateState, OuterAddresses, OuterStatusAddresses,
                   rcExists, svcExists, attempts, wRet, wObs, tOp, upgraded, uPods,
                   uIdx, tLog, uPre, uFault>>
    /\ UNCHANGED <<watchVars, stableVars, scaleVars, recycleVars>>

\* upgrade up to its loop over the pods
Upgrade(rcOk, podsOk, pods) ==
    /\ StartOp("upgrade")
    /\ upgraded' = FALSE
    /\ IF PhaseRank(Phase) < PhaseRank("PhaseTidbStarted") THEN
          /\ tRet' = "ErrUnavailable"
          /\ traced' = TRUE
          /\ tdCur' = ""
          /\ pcT' = "idle"
          /\ uPods' = << >>
       ELSE IF ~ (rcExists /\ rcOk) THEN
          /\ tRet' = "upgradeRC failed"
          /\ traced' = TRUE
          /\ tdCur' = ""
          /\ pcT' = "idle"
          /\ uPods' = << >>
       ELSE IF ~ podsOk THEN
          /\ tRet' = "GetPods failed"
          /\ traced' = TRUE
          /\ tdCur' = ""
          /\ pcT' = "idle"
          /\ uPods' = << >>
       ELSE
          /\ tRet' = "none"
          /\ traced' = FALSE
          /\ pcT' = "upgradeLoop"
          /\ uPods' = pods
          /\ UNCHANGED tdCur
    /\ caller' = "none"
    /\ uPre' = <<FALSE, FALSE>>
    /\ uFault' = "none"
    /\ UNCHANGED <<Phase, Members, MigrateState, OuterAddresses, OuterStatusAddresses,
                   rcExists, svcExists>>
    /\ UNCHANGED <<watchVars, stableVars, scaleVars, recycleVars>>

\* upgrade's loop at a pod that is at the target version
UpgradeSkip ==
    /\ pcT = "upgradeLoop"
    /\ uIdx <= Len(uPods)
    /\ ~ needUpgrade(uPods[uIdx])
    /\ uIdx' = uIdx + 1
    /\ UNCHANGED <<Phase, Members, tdCur, MigrateState, OuterAddresses,
                   OuterStatusAddresses, rcExists, svcExists, pcT, caller, attempts,
                   wRet, wObs, tOp, tRet, traced, upgraded, uPods, tLog, uPre, uFault>>
    /\ UNCHANGED <<watchVars, stableVars, scaleVars, recycleVars>>

\* upgrade's loop at a pod that needs the upgrade: delete it, then call waitForOk
UpgradeDelete(delOk) ==
    /\ pcT = "upgradeLoop"
    /\ uIdx <= Len(uPods)
    /\ needUpgrade(uPods[uIdx])
    /\ upgraded' = TRUE
    /\ tLog' = Append(tLog, [op |-> "DeletePods", pod |-> uPods[uIdx].name, ok |-> delOk])
    /\ IF ~ delOk THEN
          /\ tRet' = "DeletePods failed"
          /\ traced' = TRUE
          /\ tdCur' = ""
          /\ pcT' = "idle"
          /\ UNCHANGED <<caller, attempts, wRet, wObs>>
       ELSE
          /\ tdCur' = uPods[uIdx].name
          /\ caller' = "upgrade"
          /\ attempts' = 0
          /\ wRet' = "none"
          /\ wObs' = NoObs
          /\ pcT' = IF OuterStatusAddresses = << >> THEN "panicked" ELSE "poll"
          /\ UNCHANGED <<tRet, traced>>
    /\ UNCHANGED <<Phase, Members, MigrateState, OuterAddresses, OuterStatusAddresses,
                   rcExists, svcExists, tOp, uPods, uIdx, uPre, uFault>>
    /\ UNCHANGED <<watchVars, stableVars, scaleVars, recycleVars>>

\* upgrade after waitForOk returned, going on although it returned an error
UpgradeAfterGate_IgnoreError ==
    /\ pcT = "upgradeNext"
    /\ tLog' = Append(tLog, [op |-> "waitForOk", pod |-> tdCur, ok |-> wRet = "nil"])
    /\ caller' = "none"
    /\ uIdx' = uIdx + 1
    /\ pcT' = "upgradeLoop"
    /\ UNCHANGED <<tRet, traced, tdCur>>
    /\ UNCHANGED <<Phase, Members, MigrateState, OuterAddresses, OuterStatusAddresses,
                   rcExists, svcExists, attempts, wRet, wObs, tOp, upgraded, uPods,
                   uPre, uFault>>
    /\ UNCHANGED <<watchVars, stableVars, scaleVars, recycleVars>>

\* upgrade after waitForOk returned
UpgradeAfterGate ==
    /\ pcT = "upgradeNext"
    /\ tLog' = Append(tLog, [op |-> "waitForOk", pod |-> tdCur, ok |-> wRet = "nil"])
    /\ caller' = "none"
    /\ IF wRet # "nil" THEN
          /\ tRet' = wRet
          /\ traced' = TRUE
          /\ tdCur' = ""
          /\ pcT' = "idle"
          /\ UNCHANGED uIdx
       ELSE
          /\ uIdx' = uIdx + 1
          /\ pcT' = "upgradeLoop"
          /\ UNCHANGED <<tRet, traced, tdCur>>
    /\ UNCHANGED <<Phase, Members, MigrateState, OuterAddresses, OuterStatusAddresses,
                   rcExists, svcExists, attempts, wRet, wObs, tOp, upgraded, uPods,
                   uPre, uFault>>
    /\ UNCHANGED <<watchVars, stableVars, scaleVars, recycleVars>>

\* upgrade's loop is over: return nil through the deferred function
UpgradeDone ==
    /\ pcT = "upgradeLoop"
    /\ uIdx > Len(uPods)
    /\ tRet' = "nil"
    /\ traced' = upgraded
    /\ tdCur' = ""
    /\ pcT' = "idle"
    /\ UNCHANGED <<Phase, Members, MigrateState, OuterAddresses, OuterStatusAddresses,
                   rcExists, svcExists, caller, attempts, wRet, wObs, tOp, upgraded,
                   uPods, uIdx, tLog, uPre, uFault>>
    /\ UNCHANGED <<watchVars, stableVars, scaleVars, recycleVars>>

\* what one poll can find on the platform; a request that fails, or that the
\* poll function does not make because an earlier check failed, has no result
PollInputs ==
    { in \in [podsOk : BOOLEAN, count : 0 .. MaxPods, statusOk : BOOLEAN,
              listOk : BOOLEAN, names : NameLists] :
        /\ (~ in.podsOk) => in.count = 0
        /\ (~ in.podsOk \/ in.count # Replicas) => ~ in.statusOk
        /\ (~ in.statusOk) => ~ in.listOk
        /\ (~ in.listOk) => in.names = << >> }

\* where waitForOk returns to
ReturnTo(c) == IF c = "install" THEN "installEnd" ELSE "upgradeNext"

\* one poll of waitForOk where an error of the poll function ends the wait
WaitPoll_AbortOnError ==
    /\ pcT = "poll"
    /\ \E in \in PollInputs :
          LET it == iteration(in.podsOk, in.count, in.statusOk, in.listOk, in.names,
                              Replicas, Members)
              r == Retry(attempts, MaxAttempts, it.done, it.err)
          IN  /\ Members' = it.Members
              /\ wObs' = IF r.again THEN NoObs ELSE it.obs
              /\ attempts' = r.n
              /\ IF it.err # "nil" THEN
                    /\ wRet' = it.err
                    /\ pcT' = ReturnTo(caller)
                 ELSE IF r.again THEN
                    /\ wRet' = "none"
                    /\ UNCHANGED pcT
                 ELSE
                    /\ wRet' = r.ret
                    /\ pcT' = ReturnTo(caller)
    /\ UNCHANGED <<Phase, tdCur, MigrateState, OuterAddresses, OuterStatusAddresses,
                   rcExists, svcExists, caller, tOp, tRet, traced, upgraded, uPods,
                   uIdx, tLog, uPre, uFault>>
    /\ UNCHANGED <<watchVars, stableVars, scaleVars, recycleVars>>

\* one poll of waitForOk: the poll function runs once and Retry decides
WaitPoll ==
    /\ pcT = "poll"
    /\ \E in \in PollInputs :
          LET it == iteration(in.podsOk, in.count, in.statusOk, in.listOk, in.names,
                              Replicas, Members)
              r == Retry(attempts, MaxAttempts, it.done, it.err)
          IN  /\ Members' = it.Members
              /\ wObs' = IF r.again THEN NoObs ELSE it.obs
              /\ attempts' = r.n
              /\ IF r.again THEN
                    /\ wRet' = "none"
                    /\ UNCHANGED pcT
                 ELSE
                    /\ wRet' = r.ret
                    /\ pcT' = ReturnTo(caller)
    /\ UNCHANGED <<Phase, tdCur, MigrateState, OuterAddresses, OuterStatusAddresses,
                   rcExists, svcExists, caller, tOp, tRet, traced, upgraded, uPods,
                   uIdx, tLog, uPre, uFault>>
    /\ UNCHANGED <<watchVars, stableVars, scaleVars, recycleVars>>

Uninstall(rcFails, svcFails) ==
    LET r == uninstall(TidbState, rcFails, svcFails) IN
    /\ StartOp("uninstall")
    /\ uPre' = <<rcExists, svcExists>>
    /\ uFault' = IF rcFails THEN "DelRc" ELSE IF svcFails THEN "DelSrvs" ELSE "none"
    /\ Members' = r.st.Members
    /\ tdCur' = r.st.cur
    /\ MigrateState' = r.st.MigrateState
    /\ ScaleState' = r.st.ScaleState
    /\ OuterAddresses' = r.st.OuterAddresses
    /\ OuterStatusAddresses' = r.st.OuterStatusAddresses
    /\ rcExists' = r.st.rc
    /\ svcExists' = r.st.svc
    /\ tRet' = r.err
    /\ traced' = FALSE
    /\ upgraded' = FALSE
    /\ uPods' = << >>
    /\ UNCHANGED <<Phase, pcT, caller>>
    /\ UNCHANGED <<watchVars, stableVars, scaleRest, recycleVars>>

NextTidb ==
    \/ \E updateOk, svcOk, rcOk \in BOOLEAN : Install(updateOk, svcOk, rcOk)
    \/ InstallEnd
    \/ \E rcOk, podsOk \in BOOLEAN :
          \E pods \in IF podsOk /\ rcOk /\ rcExists /\ Phase = "PhaseTidbStarted"
                       THEN PodLists ELSE {<< >>} :
              Upgrade(rcOk, podsOk, pods)
    \/ UpgradeSkip
    \/ \E delOk \in BOOLEAN : UpgradeDelete(delOk)
    \/ UpgradeAfterGate
    \/ UpgradeDone
    \/ WaitPoll
    \/ \E rcFails, svcFails \in BOOLEAN : Uninstall(rcFails, svcFails)

SpecTidb == InitTidb /\ [][NextTidb]_vars

(***************************************************************************)
(* SpecScaleLife: reconcileTidbs and uninstall on the same cluster status   *)
(***************************************************************************)
NextScaleLife ==
    \/ \E replica \in -1 .. MaxReplicas + 1 : Reconcile(replica)
    \/ \E rcFails, svcFails \in BOOLEAN : Uninstall(rcFails, svcFails)

SpecScaleLife == InitScale /\ [][NextScaleLife]_vars


(***************************************************************************)
(* Properties of the watcher                                               *)
(***************************************************************************)
\* the step in which the dispatcher finishes handling the event it holds
HandleStep == pcD = "handling" /\ pcD' # "handling"

\* C1: handling a Modified or Deleted event whose cluster name is not in the
\* Cluster State Store returns the "unsafe state" error, leaves w.dbs and
\* w.dbRVs unchanged and makes no gc call.
C1_UnknownNameIsUnsafe ==
    [][ ( /\ HandleStep
          /\ dev.type \in {"MODIFIED", "DELETED"}
          /\ dev.object.name \notin DOMAIN dbs )
        => ( /\ herr' = UnsafeState
             /\ dbs' = dbs
             /\ dbRVs' = dbRVs
             /\ gcArgs' = << >> ) ]_vars

\* an unknown-name event was handled while another cluster is in the store
C1_Witness ==
    /\ herr = UnsafeState
    /\ gcArgs = << >>
    /\ dbs # EmptyMap
    /\ pcR = "serve"

\* C3: when a 410 is followed by a failed or unstable relist, the watch
\* goroutine terminates and Run returns the VersionOutdated error.
C3_OutdatedIsWhatRunReturns ==
    ( /\ pcW = "done"
      /\ werr = "VersionOutdated"
      /\ pcR = "returned" )
    => runRet = "VersionOutdated"

\* C4: after a 410 with a stable relist the watch goroutine goes on: its next
\* watch request is issued, from the relist's collection-level resource version.
C4_StableGoneResumes ==
    \A v \in RVs :
        (pcW = "sendTest" /\ breakBy = "gone" /\ watchVersion = v)
            ~> (pcW \notin {"sendTest", "open"} /\ watchFrom = v)

\* C5: Run returns only on an unrecoverable error: a failed startup recycle, a
\* watch stream that cannot be opened, or a 410 whose relist fails or is unstable.
C5_RunReturnsOnlyUnrecoverable ==
    pcR = "returned" => runRet \in {"recycle error", "watch error", "VersionOutdated"}

\* C6: every normal event read from the stream sets the cursor to its resource
\* version and reaches the dispatcher exactly once: it is held by the watch
\* goroutine until the dispatcher is free, then by the dispatcher alone, in
\* stream order, one event at a time.
C6_InOrderExactlyOnce ==
    /\ Len(inflight) = (IF pcD = "handling" THEN 1 ELSE 0) + (IF pcW = "send" THEN 1 ELSE 0)
    /\ pcD = "handling" => dev = Head(inflight)
    /\ pcW = "send" => /\ wev = inflight[Len(inflight)]
                       /\ watchVersion = wev.object.rv

\* the dispatcher handles an event of one cluster while the next event of the
\* stream, of the other cluster and with another resource version, waits
C6_Witness ==
    /\ pcD = "handling"
    /\ pcW = "send"
    /\ dev.object.name # wev.object.name
    /\ dev.object.rv # wev.object.rv
    /\ inflight = <<dev, wev>>

\* C7: a handleTidbEvent that returns an error leaves the dispatcher in its
\* loop, ready for the next event, and leaves the watch goroutine, the error
\* channel, the event channel and Run as they were.
C7_HandlerErrorIsSkipped ==
    [][ (HandleStep /\ herr' # "nil")
        => ( /\ pcD' = "wait"
             /\ pcW' = pcW
             /\ pcR' = pcR
             /\ runRet' = runRet
             /\ errCh' = errCh
             /\ eventChClosed' = eventChClosed
             /\ alive' ) ]_vars

\* after a gc failure the dispatcher has received the next event while Run blocks
C7_Witness ==
    /\ herr = "gc error"
    /\ pcD = "handling"
    /\ pcR = "serve"
    /\ alive


(***************************************************************************)
(* Properties of the stability check                                       *)
(***************************************************************************)
\* the relisted clusters as a map from name to resource version
ListedRVs(l) ==
    [n \in { l[i].name : i \in 1 .. Len(l) } |->
        (CHOOSE d \in { l[i] : i \in 1 .. Len(l) } : d.name = n).rv]

\* C2: the check reports stable exactly when cache and relist have the same
\* number of entries and every relisted name is cached with the same resource
\* version; that is exactly when both describe the same clusters at the same
\* versions, so an added name, a removed name or a changed version is unstable.
C2_StableIffSameVersions ==
    chkResult # "none" =>
        /\ chkResult = "stable" <=>
              ( /\ Cardinality(DOMAIN chkCache) = Len(chkList)
                /\ \A i \in 1 .. Len(chkList) :
                      /\ chkList[i].name \in DOMAIN chkCache
                      /\ chkCache[chkList[i].name] = chkList[i].rv )
        /\ chkResult = "stable" <=> ListedRVs(chkList) = chkCache
        /\ chkResult \in {"stable", "unstable"}

\* two cached clusters relisted unchanged are reported stable
C2_Witness ==
    /\ chkResult = "stable"
    /\ Len(chkList) = 2
    /\ DOMAIN chkCache = Names

(***************************************************************************)
(* Properties of reconcileTidbs                                            *)
(***************************************************************************)
\* how a request for sReq replicas is to be treated from sPrev replicas
ScaleClass ==
    IF sReq = sPrev \/ sReq < 1 THEN "noop"
    ELSE IF sReq > TidbMax THEN "exceeds max"
    ELSE IF sReq < 2 THEN "must be greater than 2"
    ELSE IF sReq > 3 * sPrev THEN "scale out more than 2 times"
    ELSE IF (sPrev - sReq) * 3 > sPrev THEN "scale down less than one-third"
    ELSE "accept"

Requested == sRet # "none"
Rejected == Requested /\ ScaleClass \notin {"noop", "accept"}
Accepted == Requested /\ ScaleClass = "accept"

\* C8: replica = current or replica < 1 is a no-op with a health recheck only;
\* replica > max, replica < 2, replica > 3*current and (current - replica)*3 >
\* current are rejected, the first that applies in that order deciding the
\* error; every other request is accepted and assigns the requested value to
\* the desired replica count exactly once.
C8_ScaleValidation ==
    Requested =>
        /\ ScaleClass = "noop" =>
              /\ Replicas = sPrev
              /\ sWrites = << >>
              /\ Len(sCalls) = 1 /\ sCalls[1].op = "checkStatus"
              /\ sRet = (IF sCalls[1].ok THEN "nil" ELSE "checkStatus error")
        /\ ScaleClass \notin {"noop", "accept"} =>
              /\ sRet = ScaleClass
              /\ Replicas = sPrev
        /\ ScaleClass = "accept" =>
              /\ sRet \in {"nil", "scale error", "waitForOk error"}
              /\ sWrites = <<sReq>>
              /\ Replicas = sReq

\* a scale-down by exactly one third is accepted
C8_Witness ==
    /\ Accepted
    /\ sPrev = 3
    /\ sReq = 2
    /\ Replicas = 2

\* C9 as claimed: a rejected request leaves the desired replica count and the
\* cluster's status as they were and issues no scale call.
C9_RejectedChangesNothing ==
    Rejected =>
        /\ Replicas = sPrev
        /\ ScaleState = sPrevState
        /\ sCalls = << >>

\* C9 as amended: a rejected request leaves the desired replica count as it
\* was, assigns nothing to it and issues no call to the platform; of the
\* cluster's status it changes only the scale-error bit, which it sets.
C9_RejectedSetsOnlyErrorBit ==
    Rejected =>
        /\ Replicas = sPrev
        /\ sWrites = << >>
        /\ sCalls = << >>
        /\ ScaleState = sPrevState \cup {"tidbScaleErr"}

\* a request above the maximum was rejected on a cluster without the error bit
C9_Witness ==
    /\ Rejected
    /\ sRet = "exceeds max"
    /\ "tidbScaleErr" \notin sPrevState
    /\ "otherScaleErr" \in sPrevState

\* C10: when an accepted request fails in the scale call or in the health gate
\* the scale-error bit is set and the desired replica count stays at the
\* requested value; nil is returned only after the scale call and then the
\* health gate have both returned nil.
C10_FailureKeepsRequestedCount ==
    Accepted =>
        /\ sRet # "nil" =>
              /\ "tidbScaleErr" \in ScaleState
              /\ Replicas = sReq
              /\ sWrites = <<sReq>>
              /\ \/ sCalls = <<Call("ScaleReplicationController", FALSE)>>
                 \/ sCalls = <<Call("ScaleReplicationController", TRUE),
                               Call("waitForOk", FALSE)>>
        /\ sRet = "nil" =>
              /\ sCalls = <<Call("ScaleReplicationController", TRUE),
                            Call("waitForOk", TRUE)>>
              /\ ScaleState = sPrevState
              /\ rcReplicas = sReq

\* the health gate failed after the controller was scaled from 2 to 4
C10_Witness ==
    /\ Accepted
    /\ sRet = "waitForOk error"
    /\ sPrev = 2
    /\ sReq = 4
    /\ Replicas = 4
    /\ rcReplicas = 4


(***************************************************************************)
(* Properties of startup, of the error statuses and of the store's owners   *)
(***************************************************************************)
\* Run is past its initialization loop, or one of its goroutines runs
Serving ==
    \/ pcR \in {"recycle", "serve", "returned"}
    \/ pcW # "idle"
    \/ pcD # "idle"

\* C17: Run leaves its initialization loop only by an attempt in which the
\* resource type was registered, the clusters were listed and a non-nil
\* provisioner was selected; an attempt that fails leaves Run in the loop, with
\* no goroutine started, to try again.
C17_ServesOnlyAfterInit ==
    /\ [](Serving => (initRes = "ok" /\ pvProvisioner \in {"none", "hostpath"}))
    /\ [][ (pcR = "init" /\ initRes' # "ok" /\ tries' # tries)
           => (pcR' = "init" /\ pcW' = "idle" /\ pcD' = "idle" /\ alive') ]_vars

\* the watch was started after an attempt that selected the host-path provisioner
C17_Witness ==
    /\ pcR = "serve"
    /\ pcW = "recv"
    /\ initRes = "ok"
    /\ pvProvisioner = "hostpath"

\* C19: an error status other than 410 is only logged: the watch goroutine
\* stays in its receive loop, nothing is sent on errCh, Run does not return
\* and no event is handed to the dispatcher for it.
C19_OtherStatusKeepsWatching ==
    [][ (breakBy # "status" /\ breakBy' = "status")
        => ( /\ alive'
             /\ pcW' = "recv"
             /\ errCh' = errCh
             /\ runRet' = runRet
             /\ inflight' = inflight ) ]_vars

\* C20: once the watch has started, the watch goroutine never accesses the
\* Cluster State Store while the dispatcher may be writing it: it is never
\* just past the stability check of w.dbRVs (the stable outcome of a 410)
\* with the dispatcher inside handleTidbEvent.
C20_WatchGoroutineKeepsOffStore ==
    ~ (pcW = "sendTest" /\ breakBy = "gone" /\ pcD = "handling")

\* C16: a desired replica count of at least 2 is still at least 2 after any
\* scale request, whether accepted, rejected or a no-op.
C16_ReplicasStayAtLeastTwo ==
    [][ Replicas >= 2 => Replicas' >= 2 ]_vars

\* a request for one replica was rejected at two replicas
C16_Witness ==
    /\ Rejected
    /\ sReq = 1
    /\ sPrev = 2
    /\ Replicas = 2

NeedingUpgrade == SelectSeq(uPods, needUpgrade)

\* C11: upgrade deletes the pods that need it one at a time in pod-list order,
\* each deletion followed by a health gate that succeeds before the next
\* deletion; pods at the target version are never deleted; a failed deletion
\* or gate is the last call of the rollout; a successful rollout made exactly
\* one deletion and one gate per pod that needed it.
C11_UpgradeOneAtATime ==
    tOp = "upgrade" =>
        /\ Len(tLog) <= 2 * Len(NeedingUpgrade)
        /\ \A i \in 1 .. Len(tLog) :
              /\ tLog[i].op = IF i % 2 = 1 THEN "DeletePods" ELSE "waitForOk"
              /\ tLog[i].pod = NeedingUpgrade[(i + 1) \div 2].name
        /\ \A i \in 1 .. Len(tLog) - 1 : tLog[i].ok
        /\ (tLog # << >> /\ ~ tLog[Len(tLog)].ok) =>
              (pcT = "idle" /\ tRet \notin {"none", "nil"})
        /\ pcT \in {"poll", "upgradeNext"} => Len(tLog) % 2 = 1
        /\ (pcT = "idle" /\ tRet = "nil") =>
              /\ Len(tLog) = 2 * Len(NeedingUpgrade)
              /\ \A i \in 1 .. Len(tLog) : tLog[i].ok

\* a rollout over two pods that both needed the upgrade returned nil
C11_Witness ==
    /\ tOp = "upgrade"
    /\ pcT = "idle"
    /\ tRet = "nil"
    /\ Len(tLog) = 4

\* C12: when install has returned, the phase is Started if it returned nil and
\* StartFailed if it returned an error, and the audit event was emitted.
C12_InstallEndsStartedOrFailed ==
    (tOp = "install" /\ pcT = "idle") =>
        /\ traced
        /\ Phase = IF tRet = "nil" THEN "PhaseTidbStarted" ELSE "PhaseTidbStartFailed"

\* C13: waitForOk returned nil only if its last poll found as many healthy
\* pods as td.Replicas, got an answer from the status endpoint and listed the
\* pod names, and td.Members are the names of that listing.
C13_GateSuccessMeansHealthy ==
    wRet = "nil" =>
        /\ wObs.pods
        /\ wObs.count = Replicas
        /\ wObs.status
        /\ wObs.listed
        /\ Len(Members) = Len(wObs.names)
        /\ \A i \in 1 .. Len(Members) : Members[i] = wObs.names[i]

\* the gate succeeded, after a poll that failed, with every pod listed
C13_Witness ==
    /\ wRet = "nil"
    /\ attempts = 1
    /\ Len(Members) = MaxPods

\* C14: a poll of the health gate that fails, for whatever reason, is followed
\* by another poll unless it was the last of the bounded number of attempts;
\* the gate returns an error only when the attempts are exhausted, and every
\* failed poll uses up one attempt, so the gate terminates.
C14_GateRetriesUntilExhausted ==
    /\ [](attempts \in 0 .. MaxAttempts)
    /\ [][ pcT = "poll" =>
             \/ /\ pcT' = "poll"
                /\ wRet' = "none"
                /\ attempts' = attempts + 1
                /\ attempts' < MaxAttempts
             \/ /\ pcT' # "poll"
                /\ wRet' = "nil"
                /\ wObs'.listed
             \/ /\ pcT' # "poll"
                /\ wRet' = "retry timeout"
                /\ attempts' = MaxAttempts ]_vars

\* the gate gave up after its last attempt failed at listing the pods
C14_Witness ==
    /\ wRet = "retry timeout"
    /\ attempts = MaxAttempts
    /\ ~ wObs.pods

\* uninstall's fields are cleared and its platform resources are gone
Cleared(st) ==
    /\ st.Members = << >>
    /\ st.cur = ""
    /\ st.MigrateState = ""
    /\ st.ScaleState = {}
    /\ st.OuterAddresses = << >>
    /\ st.OuterStatusAddresses = << >>
    /\ ~ st.rc
    /\ ~ st.svc

\* C15: uninstall returns an error only when a platform call failed, whether
\* or not the controller and the service existed; when it returns nil the
\* membership, current pod, migration state, scale state and outer addresses
\* are cleared; and running it on its own result gives that result again.
C15_UninstallIdempotent ==
    /\ tOp = "uninstall" => ((tRet = "nil") <=> (uFault = "none"))
    /\ (tOp = "uninstall" /\ tRet = "nil") => Cleared(TidbState)
    /\ LET once == uninstall(TidbState, FALSE, FALSE)
           twice == uninstall(once.st, FALSE, FALSE)
       IN  /\ once.err = "nil"
           /\ Cleared(once.st)
           /\ twice = once

\* uninstall returned nil for a role that was installed before and whose
\* controller and service were already gone
C15_Witness ==
    /\ tOp = "uninstall"
    /\ tRet = "nil"
    /\ uPre = <<FALSE, FALSE>>
    /\ Phase = "PhaseTidbStarted"

(***************************************************************************)
(* Properties of the Cluster State Store                                   *)
(***************************************************************************)
\* w.dbs and w.dbRVs describe the same clusters at the same resource versions
StoreConsistent ==
    /\ DOMAIN dbs = DOMAIN dbRVs
    /\ \A n \in DOMAIN dbs : dbs[n].name = n /\ dbRVs[n] = dbs[n].rv

\* both maps hold the snapshot db
Holds(ds, rvs, db) ==
    IF db.name \in DOMAIN ds /\ db.name \in DOMAIN rvs
    THEN ds[db.name] = db /\ rvs[db.name] = db.rv
    ELSE FALSE

\* C21 as stated: the two maps always have the same keys and versions; after
\* every handled Added or Modified both hold the event's snapshot, and after
\* every handled Deleted neither has the name.
C21_MapsFollowEveryEvent ==
    /\ []StoreConsistent
    /\ [][ HandleStep =>
             /\ dev.type \in {"ADDED", "MODIFIED"} => Holds(dbs', dbRVs', dev.object)
             /\ dev.type = "DELETED" =>
                   (dev.object.name \notin DOMAIN dbs' /\ dev.object.name \notin DOMAIN dbRVs')
         ]_vars

\* C21, amended: the two maps always have the same keys and versions; after a
\* handled Added, or a handled Modified of a name the store holds, both maps
\* hold the event's snapshot, also when the garbage trigger fails; after a
\* handled Deleted neither has the name.
C21_MapsFollowAppliedEvents ==
    /\ []StoreConsistent
    /\ [][ HandleStep =>
             /\ (dev.type = "ADDED" \/ (dev.type = "MODIFIED" /\ dev.object.name \in DOMAIN dbs))
                   => Holds(dbs', dbRVs', dev.object)
             /\ dev.type = "DELETED" =>
                   (dev.object.name \notin DOMAIN dbs' /\ dev.object.name \notin DOMAIN dbRVs')
         ]_vars

\* a Modified was applied to both maps although the garbage trigger failed
C21_Witness ==
    /\ herr = "gc error"
    /\ gcArgs # << >>
    /\ IF gcArgs = << >> THEN FALSE
       ELSE /\ gcArgs[1].new # Nil
            /\ Holds(dbs, dbRVs, gcArgs[1].new)
            /\ gcArgs[1].new.rv = MaxRV

\* C22: when initialization has succeeded, the store holds exactly the
\* clusters of the list that attempt obtained, at the listed versions, so the
\* recycle pass that follows sees those clusters and no others.
C22_StoreIsTheSuccessfulList ==
    pcR = "recycle" =>
        /\ DOMAIN dbs = DOMAIN initList
        /\ \A n \in DOMAIN initList : dbs[n].rv = initList[n]

\* C23: the garbage trigger's first argument is the snapshot the store held
\* for the cluster before the event was applied: (previous, event's) on
\* Modified and (removed, nil) on Deleted.
C23_TriggerGetsPreviousSnapshot ==
    [][ ( /\ HandleStep
          /\ dev.type \in {"MODIFIED", "DELETED"}
          /\ dev.object.name \in DOMAIN dbs )
        => ( /\ Len(gcArgs') = 1
             /\ gcArgs'[1].old = dbs[dev.object.name]
             /\ gcArgs'[1].new = IF dev.type = "MODIFIED" THEN dev.object ELSE Nil ) ]_vars

\* the resource versions on the platform when every change was delivered as an
\* event: the cache with the events applied that the dispatcher still holds
RECURSIVE Delivered(_, _, _)
Delivered(ds, rvs, events) ==
    IF events = << >> THEN rvs
    ELSE LET r == handleTidbEvent(ds, rvs, Head(events), FALSE)
         IN  Delivered(r.dbs, r.dbRVs, Tail(events))

\* C24: whenever the watch goroutine is where a 410 can arrive, the stability
\* check of the cache against a relist that shows exactly the delivered events
\* reports stable, whatever the dispatcher is doing.
C24_DeliveredMeansStable ==
    (alive /\ pcR = "serve" /\ pcW = "recv") =>
        ~ isDbsCacheUnstable(dbRVs, ItemsOf(Delivered(dbs, dbRVs, inflight)))

\* C25: the scale-error bit, once set, is still set after every reconcile,
\* successful, failed, rejected or no-op; the only step that takes it away is
\* an uninstall that returns nil, which zeroes the scale state.
C25_ScaleErrorBitSticks ==
    [][ ("tidbScaleErr" \in ScaleState /\ "tidbScaleErr" \notin ScaleState')
        => ( /\ tOp' = "uninstall"
             /\ tRet' = "nil"
             /\ ScaleState' = {}
             /\ UNCHANGED <<Replicas, rcReplicas, sReq, sRet, sCalls, sWrites>> ) ]_vars

\* after an uninstall had zeroed the scale state a request set the bit, and
\* the accepted request that then succeeded left it set
C25_Witness ==
    /\ tOp = "uninstall"
    /\ tRet = "nil"
    /\ Accepted
    /\ sRet = "nil"
    /\ sPrev # Replicas
    /\ "tidbScaleErr" \in sPrevState
    /\ ScaleState = {"tidbScaleErr"}

====
